---- MODULE Spec2Model ----
(***************************************************************************)
(* Model of the two Node-RED nodes of node-red-contrib-solution-engine:    *)
(*   - mtconnect-dataitem   (read pipeline:  normalizeHost, broker type    *)
(*     detection with the module-level brokerTypeCache, buildUrl,          *)
(*     fetchDataItem, findDataItemInXml)                                   *)
(*   - engine-set-dataitem  (write pipeline: normalizeHost, escapeXml,     *)
(*     POST, result mapping)                                               *)
(*                                                                         *)
(* JavaScript strings are modelled as sequences of atoms.  An atom is a    *)
(* single character ("/", ":", "<", ...) or a run of letters that no       *)
(* pattern of the program splits ("MTConnectStreams", "5000", ...).        *)
(* JavaScript values are records [t, s]: t is the type tag and s the text. *)
(***************************************************************************)
EXTENDS Integers, Sequences, FiniteSets, TLC

(***************************************************************************)
(* Bounds                                                                  *)
(***************************************************************************)
\* inbound messages of one run
NMsgs == 2
Msgs == 1..NMsgs

\* outbound requests of one run: a handler that issues a request runs only while
\* fewer than MaxReqs have been issued
MaxReqs == 4

(***************************************************************************)
(* JavaScript values                                                       *)
(***************************************************************************)
Undef == [t |-> "undefined", s |-> <<>>]
Null == [t |-> "null", s |-> <<>>]
Str(s) == [t |-> "string", s |-> s]
Num(s) == [t |-> "number", s |-> s]

\* !v
Falsy(v) ==
    \/ v.t \in {"undefined", "null"}
    \/ v.t = "string" /\ v.s = <<>>
    \/ v.t = "number" /\ v.s = <<"0">>

\* a || b
Or(a, b) == IF Falsy(a) THEN b ELSE a

(***************************************************************************)
(* String helpers                                                          *)
(***************************************************************************)
\* s.startsWith(p)
StartsWith(s, p) == Len(s) >= Len(p) /\ SubSeq(s, 1, Len(p)) = p

\* s.substring(n)
Substring(s, n) == SubSeq(s, n + 1, Len(s))

\* s.replace(/\/+$/, '')
RECURSIVE StripTrailingSlashes(_)
StripTrailingSlashes(s) ==
    IF s # <<>> /\ s[Len(s)] = "/"
    THEN StripTrailingSlashes(SubSeq(s, 1, Len(s) - 1))
    ELSE s

\* s.replace(/^\/+/, '')
RECURSIVE StripLeadingSlashes(_)
StripLeadingSlashes(s) ==
    IF s # <<>> /\ s[1] = "/"
    THEN StripLeadingSlashes(Tail(s))
    ELSE s

\* s.includes(needle)
Includes(s, needle) ==
    \E i \in 0..(Len(s) - Len(needle)) : SubSeq(s, i + 1, i + Len(needle)) = needle

HTTPS_PREFIX == <<"h", "t", "t", "p", "s", ":", "/", "/">>
HTTP_PREFIX == <<"h", "t", "t", "p", ":", "/", "/">>
HTTP_PROTO == <<"h", "t", "t", "p", ":">>
HTTPS_PROTO == <<"h", "t", "t", "p", "s", ":">>

(***************************************************************************)
(* normalizeHost (both nodes carry the same copy)                          *)
(***************************************************************************)
\* mutant of normalizeHost: the trailing slashes are kept
normalizeHost_KeepSlashes(host) ==
    IF Falsy(host)
    THEN [hostname |-> <<>>, protocol |-> HTTP_PROTO, isHttps |-> FALSE]
    ELSE IF StartsWith(host.s, HTTPS_PREFIX)
    THEN [hostname |-> Substring(host.s, 8), protocol |-> HTTPS_PROTO, isHttps |-> TRUE]
    ELSE IF StartsWith(host.s, HTTP_PREFIX)
    THEN [hostname |-> Substring(host.s, 7), protocol |-> HTTP_PROTO, isHttps |-> FALSE]
    ELSE [hostname |-> host.s, protocol |-> HTTP_PROTO, isHttps |-> FALSE]

normalizeHost(host) ==
    IF Falsy(host)
    THEN [hostname |-> <<>>, protocol |-> HTTP_PROTO, isHttps |-> FALSE]
    ELSE IF StartsWith(host.s, HTTPS_PREFIX)
    THEN [hostname |-> StripTrailingSlashes(Substring(host.s, 8)),
          protocol |-> HTTPS_PROTO, isHttps |-> TRUE]
    ELSE IF StartsWith(host.s, HTTP_PREFIX)
    THEN [hostname |-> StripTrailingSlashes(Substring(host.s, 7)),
          protocol |-> HTTP_PROTO, isHttps |-> FALSE]
    ELSE [hostname |-> StripTrailingSlashes(host.s),
          protocol |-> HTTP_PROTO, isHttps |-> FALSE]

(***************************************************************************)
(* buildUrl                                                                *)
(***************************************************************************)
SE_PATH == <<"/", "api", "/", "v6", "/", "mtc", "/", "current">>

BaseUrl(host, port, protocol) == protocol \o <<"/", "/">> \o host \o <<":">> \o port

buildUrl(host, port, path, isSolutionEngine, protocol) ==
    IF isSolutionEngine
    THEN BaseUrl(host, port, protocol) \o SE_PATH
    ELSE IF ~Falsy(path)
    THEN BaseUrl(host, port, protocol) \o <<"/">>
         \o StripTrailingSlashes(StripLeadingSlashes(path.s)) \o <<"/", "current">>
    ELSE BaseUrl(host, port, protocol) \o <<"/", "current">>

(***************************************************************************)
(* findDataItemInXml                                                       *)
(***************************************************************************)
\* Characters that /[.*+?^${}()|[\]\\]/g escapes
RegexSpecials == {".", "*", "+", "?", "^", "$", "{", "}", "(", ")", "|", "[", "]", "\\"}

\* dataItemId.replace(/[.*+?^${}()|[\]\\]/g, '\\$&'): the source text of the pattern
RECURSIVE EscapeRegex(_)
EscapeRegex(s) ==
    IF s = <<>> THEN <<>>
    ELSE IF s[1] \in RegexSpecials
    THEN <<"\\", s[1]>> \o EscapeRegex(Tail(s))
    ELSE <<s[1]>> \o EscapeRegex(Tail(s))

\* new RegExp(source) restricted to literals, escapes and the wildcard '.':
\* the compiled pattern is a sequence of [any, c]
RECURSIVE CompileRegex(_)
CompileRegex(src) ==
    IF src = <<>> THEN <<>>
    ELSE IF src[1] = "\\" /\ Len(src) >= 2
    THEN <<[any |-> FALSE, c |-> src[2]]>> \o CompileRegex(Tail(Tail(src)))
    ELSE IF src[1] = "."
    THEN <<[any |-> TRUE, c |-> "."]>> \o CompileRegex(Tail(src))
    ELSE <<[any |-> FALSE, c |-> src[1]]>> \o CompileRegex(Tail(src))

\* the compiled pattern pat matches xml at position i (1-based)
MatchesAt(xml, pat, i) ==
    /\ i >= 1
    /\ i + Len(pat) - 1 <= Len(xml)
    /\ \A k \in 1..Len(pat) : pat[k].any \/ xml[i + k - 1] = pat[k].c

\* index of the first occurrence of atom c at or after position from, 0 if none
FirstIndexOf(xml, c, from) ==
    IF \E k \in from..Len(xml) : xml[k] = c
    THEN CHOOSE k \in from..Len(xml) :
            xml[k] = c /\ \A l \in from..(k - 1) : xml[l] # c
    ELSE 0

\* the source text dataItemId="<escapedId>"
IdAttrPattern(escapedId) == CompileRegex(<<"dataItemId", "=", "\"">> \o escapedId \o <<"\"">>)

\* simplePattern: dataItemId="<escapedId>"[^>]*>([^<]*)<  matched at position i
SimpleMatchAt(xml, pat, i) ==
    /\ MatchesAt(xml, pat, i)
    /\ FirstIndexOf(xml, ">", i + Len(pat)) # 0
    /\ FirstIndexOf(xml, "<", FirstIndexOf(xml, ">", i + Len(pat)) + 1) # 0

\* \w
WordAtoms == {"DataItem", "Item", "A", "B", "X", "Y", "x", "y", "T", "N", "5", "42", "7",
              "dataItemId", "timestamp", "sequence", "name", "MTConnectStreams",
              "MTConnectError", "ok", "true"}
IsWord(c) == c \in WordAtoms

\* fullElementPattern: <\w+[^>]*dataItemId="<escapedId>"[^>]*>  matched at position s
FullMatchAt(xml, pat, s) ==
    /\ s + 1 <= Len(xml)
    /\ xml[s] = "<"
    /\ IsWord(xml[s + 1])
    /\ FirstIndexOf(xml, ">", s + 1) # 0
    /\ \E p \in (s + 2)..Len(xml) :
          /\ MatchesAt(xml, pat, p)
          /\ p + Len(pat) - 1 < FirstIndexOf(xml, ">", s + 1)

\* elem.match(/<attr>="([^"]*)"/): [found, value]
AttrMatch(elem, attr) ==
    LET Ok(i) == /\ i + 2 <= Len(elem)
                 /\ elem[i] = attr /\ elem[i + 1] = "=" /\ elem[i + 2] = "\""
                 /\ FirstIndexOf(elem, "\"", i + 3) # 0
    IN IF \E i \in 1..Len(elem) : Ok(i)
       THEN LET i == CHOOSE i \in 1..Len(elem) : Ok(i) /\ \A j \in 1..(i - 1) : ~Ok(j)
            IN [found |-> TRUE,
                value |-> SubSeq(elem, i + 3, FirstIndexOf(elem, "\"", i + 3) - 1)]
       ELSE [found |-> FALSE, value |-> <<>>]

\* s.trim()
Whitespace == {" ", "\n"}
RECURSIVE TrimLeft(_)
TrimLeft(s) == IF s # <<>> /\ s[1] \in Whitespace THEN TrimLeft(Tail(s)) ELSE s
RECURSIVE TrimRight(_)
TrimRight(s) ==
    IF s # <<>> /\ s[Len(s)] \in Whitespace THEN TrimRight(SubSeq(s, 1, Len(s) - 1)) ELSE s
Trim(s) == TrimRight(TrimLeft(s))

\* s.split('.').pop()
LastSegment(s) ==
    IF \E k \in 1..Len(s) : s[k] = "."
    THEN LET k == CHOOSE k \in 1..Len(s) : s[k] = "." /\ \A l \in (k + 1)..Len(s) : s[l] # "."
         IN SubSeq(s, k + 1, Len(s))
    ELSE s

\* mutants of ElementMatchAt: the last opening tag that matches; no match
ElementMatchAt_Last(xml, pat) ==
    IF \E s \in 1..Len(xml) : FullMatchAt(xml, pat, s)
    THEN CHOOSE s \in 1..Len(xml) :
            FullMatchAt(xml, pat, s) /\ \A j \in (s + 1)..Len(xml) : ~FullMatchAt(xml, pat, j)
    ELSE 0
ElementMatchAt_None(xml, pat) == 0

\* xml.match(fullElementPattern): the position of the leftmost match, 0 if none
ElementMatchAt(xml, pat) ==
    IF \E s \in 1..Len(xml) : FullMatchAt(xml, pat, s)
    THEN CHOOSE s \in 1..Len(xml) :
            FullMatchAt(xml, pat, s) /\ \A j \in 1..(s - 1) : ~FullMatchAt(xml, pat, j)
    ELSE 0

\* mutant of EscapeId: the id is used as the pattern source unescaped
EscapeId_None(s) == s

\* escapedId
EscapeId(s) == EscapeRegex(s)

\* mutant of NameFallback: the whole id
NameFallback_Whole(s) == s

\* dataItemId.split('.').pop()
NameFallback(s) == LastSegment(s)

\* Result: threw = TRUE models the TypeError of calling .replace on a non-string
findDataItemInXml(xml, dataItemId) ==
    IF dataItemId.t # "string"
    THEN [threw |-> TRUE, found |-> FALSE, value |-> Undef, sequence |-> Undef,
          timestamp |-> Undef, name |-> Undef]
    ELSE
    LET pat == IdAttrPattern(EscapeId(dataItemId.s))
    IN IF \E i \in 1..Len(xml) : SimpleMatchAt(xml, pat, i)
       THEN LET i == CHOOSE i \in 1..Len(xml) :
                        SimpleMatchAt(xml, pat, i) /\ \A j \in 1..(i - 1) : ~SimpleMatchAt(xml, pat, j)
                gt == FirstIndexOf(xml, ">", i + Len(pat))
                lt == FirstIndexOf(xml, "<", gt + 1)
                es == ElementMatchAt(xml, pat)
                hasElem == es # 0
                elem == IF hasElem THEN SubSeq(xml, es, FirstIndexOf(xml, ">", es + 1))
                        ELSE <<>>
                ts == AttrMatch(elem, "timestamp")
                seq == AttrMatch(elem, "sequence")
                nm == AttrMatch(elem, "name")
                timestamp == IF hasElem /\ ts.found THEN Str(ts.value) ELSE Null
                sequence == IF hasElem /\ seq.found THEN Str(seq.value) ELSE Null
                name == IF hasElem /\ nm.found THEN Str(nm.value) ELSE Null
            IN [threw |-> FALSE, found |-> TRUE,
                value |-> Str(Trim(SubSeq(xml, gt + 1, lt - 1))),
                sequence |-> sequence, timestamp |-> timestamp,
                name |-> Or(name, Str(NameFallback(dataItemId.s)))]
       ELSE [threw |-> FALSE, found |-> FALSE, value |-> Undef, sequence |-> Undef,
             timestamp |-> Undef, name |-> Undef]

(***************************************************************************)
(* escapeXml and the write body                                            *)
(***************************************************************************)
\* s.replace(/c/g, rep) for a single character c
RECURSIVE ReplaceAll(_, _, _)
ReplaceAll(s, c, rep) ==
    IF s = <<>> THEN <<>>
    ELSE IF s[1] = c THEN rep \o ReplaceAll(Tail(s), c, rep)
    ELSE <<s[1]>> \o ReplaceAll(Tail(s), c, rep)

\* mutant of escapeXml: & is replaced last
escapeXml_AmpLast(str) ==
    ReplaceAll(
      ReplaceAll(
        ReplaceAll(
          ReplaceAll(
            ReplaceAll(str, "<", <<"&", "lt", ";">>),
            ">", <<"&", "gt", ";">>),
          "\"", <<"&", "quot", ";">>),
        "'", <<"&", "apos", ";">>),
      "&", <<"&", "amp", ";">>)

escapeXml(str) ==
    ReplaceAll(
      ReplaceAll(
        ReplaceAll(
          ReplaceAll(
            ReplaceAll(str, "&", <<"&", "amp", ";">>),
            "<", <<"&", "lt", ";">>),
          ">", <<"&", "gt", ";">>),
        "\"", <<"&", "quot", ";">>),
      "'", <<"&", "apos", ";">>)

\* String(value)
String(v) == IF v.t \in {"undefined", "null"} THEN <<v.t>> ELSE v.s

\* the template literal of the request body
WriteBody(dataItemId, value) ==
    <<"<", "DataItems", ">", "\n", "<", "DataItem", " ", "dataItemId", "=", "\"">>
    \o escapeXml(dataItemId.s)
    \o <<"\"", ">", "\n", "<", "Value", ">">>
    \o escapeXml(String(value))
    \o <<"<", "/", "Value", ">", "\n", "<", "/", "DataItem", ">", "\n",
         "<", "/", "DataItems", ">">>

WRITE_PATH == <<"/", "api", "/", "v6", "/", "agent", "/", "data">>

\* JSON.parse(data) on the response bodies of the model: [ok, value]
JsonParse(data) ==
    IF data = <<"true">> THEN [ok |-> TRUE, value |-> [t |-> "boolean", s |-> <<"true">>]]
    ELSE IF data = <<"{", "\"", "ok", "\"", ":", "true", "}">>
    THEN [ok |-> TRUE, value |-> [t |-> "object", s |-> <<"ok", ":", "true">>]]
    ELSE IF Len(data) = 1 /\ data[1] \in {"5", "42", "7"}
    THEN [ok |-> TRUE, value |-> Num(data)]
    ELSE [ok |-> FALSE, value |-> Undef]

(***************************************************************************)
(* Inputs of the model                                                     *)
(***************************************************************************)
ID_XY == <<"X", ".", "Y">>

\* editor configurations: one per run, for the read node and the write node
NoConfig == [host |-> Undef, port |-> Undef, path |-> Undef, dataItemId |-> Undef]
Configs ==
    { NoConfig,
      [NoConfig EXCEPT !.host = Str(<<"a">>)],
      [NoConfig EXCEPT !.host = Str(<<"a">>), !.port = Num(<<"6000">>),
                       !.dataItemId = Str(ID_XY), !.path = Str(<<"/", "p", "/">>)],
      [NoConfig EXCEPT !.host = Str(<<"b">>), !.port = Num(<<"6000">>),
                       !.dataItemId = Str(ID_XY)],
      [NoConfig EXCEPT !.host = Str(<<"a">>), !.dataItemId = Num(<<"7">>)] }

\* inbound read messages: the overrides a message may carry
NoOverride == [host |-> Undef, port |-> Undef, path |-> Undef, dataItemId |-> Undef]
ReadMsgs ==
    { NoOverride,
      [NoOverride EXCEPT !.host = Str(HTTPS_PREFIX \o <<"a", "/">>),
                         !.port = Num(<<"6000">>)] }

\* inbound write messages
NoWrite == [host |-> Undef, port |-> Undef, dataItemId |-> Undef,
            value |-> Undef, payload |-> Undef]
WriteMsgs ==
    { NoWrite,
      [NoWrite EXCEPT !.payload = Num(<<"0">>)],
      [NoWrite EXCEPT !.value = Num(<<"0">>)],
      [NoWrite EXCEPT !.value = Null, !.payload = Num(<<"0">>)] }

STREAMS == <<"MTConnectStreams">>
ERRORDOC == <<"MTConnectError">>

DocXY ==
    <<"<", "MTConnectStreams", ">",
      "<", "DataItem", " ", "dataItemId", "=", "\"", "X", ".", "Y", "\"", " ",
           "timestamp", "=", "\"", "T", "\"", " ", "sequence", "=", "\"", "5", "\"", ">",
      "42", "<", "/", "DataItem", ">",
      "<", "/", "MTConnectStreams", ">">>

DocOther ==
    <<"<", "MTConnectStreams", ">",
      "<", "DataItem", " ", "dataItemId", "=", "\"", "X", "x", "Y", "\"", ">",
      "7", "<", "/", "DataItem", ">",
      "<", "/", "MTConnectStreams", ">">>

DocError ==
    <<"<", "MTConnectError", ">", "<", "MTConnectStreams", "/", ">",
      "<", "/", "MTConnectError", ">">>

\* responses: [statusCode, data]
Response(statusCode, data) == [statusCode |-> statusCode, data |-> data]
ProbeResponses ==
    { Response(200, DocXY), Response(200, DocError), Response(200, <<>>),
      Response(204, DocXY), Response(404, DocXY) }
FetchResponses == { Response(200, DocXY), Response(200, DocOther), Response(404, DocXY) }
PostResponses ==
    { Response(200, <<>>), Response(200, <<"{", "\"", "ok", "\"", ":", "true", "}">>),
      Response(204, <<"ok">>), Response(300, <<>>), Response(404, <<"ok">>) }

(***************************************************************************)
(* State                                                                   *)
(***************************************************************************)
VARIABLES
    readNode,         \* the mtconnect-dataitem node (host, port, path, dataItemId)
    writeNode,        \* the engine-set-dataitem node (host, port, dataItemId)
    brokerTypeCache,  \* "hostname:port" -> [isSolutionEngine]
    msgs,             \* per inbound message: the closure of its input handler
    reqs,             \* per inbound message: the HTTP requests issued for it, in order
    out,              \* per inbound message: node.error calls, send calls, done calls
    call              \* one application of a pure function: its arguments and result

vars == <<readNode, writeNode, brokerTypeCache, msgs, reqs, out, call>>

\* st: "new" (not yet arrived), "missing" (a required input was missing),
\* "threw" (the input handler threw), "active" (the pipeline was started)
NewMsg ==
    [st |-> "new", kind |-> "none",
     hostname |-> <<>>, port |-> Undef, path |-> Undef, protocol |-> <<>>,
     isHttps |-> FALSE, dataItemId |-> Undef, value |-> Undef,
     cacheKey |-> <<>>, hit |-> FALSE, hitVerdict |-> FALSE,
     noHost |-> FALSE, noId |-> FALSE, noValue |-> FALSE]

NewOut == [errors |-> <<>>, sent |-> <<>>, dones |-> 0, writes |-> 0]

\* no pure function is being applied on its own
NoCall == [fn |-> "none"]

\* the constructors
MTConnectDataItemNode(config) ==
    [host |-> config.host,
     port |-> Or(config.port, Num(<<"5000">>)),
     path |-> Or(config.path, Str(<<>>)),
     dataItemId |-> config.dataItemId]

SolutionEngineSetDataItemNode(config) ==
    [host |-> config.host,
     port |-> Or(config.port, Num(<<"7200">>)),
     dataItemId |-> config.dataItemId]

Init ==
    /\ \E config \in Configs :
          /\ readNode = MTConnectDataItemNode(config)
          /\ writeNode = SolutionEngineSetDataItemNode(config)
    /\ brokerTypeCache = [k \in {} |-> [isSolutionEngine |-> FALSE]]
    /\ msgs = [m \in Msgs |-> NewMsg]
    /\ reqs = [m \in Msgs |-> <<>>]
    /\ out = [m \in Msgs |-> NewOut]
    /\ call = NoCall

(***************************************************************************)
(* The host-provided channels: node.error, send, done                      *)
(***************************************************************************)
\* node.error(text, msg)
NodeError(o, text) == [o EXCEPT !.errors = Append(@, text)]

\* done() / done(err)
Done(o) == [o EXCEPT !.dones = @ + 1]

\* send(msg): the fields of msg the pipelines set
Send(o, entry) == [o EXCEPT !.sent = Append(@, entry)]

ReadSent(payload, dataItemId, timestamp, sequence, name, error) ==
    [kind |-> "read", payload |-> payload, dataItemId |-> dataItemId,
     timestamp |-> timestamp, sequence |-> sequence, name |-> name, error |-> error,
     success |-> FALSE, value |-> Undef, hasStatusCode |-> FALSE, statusCode |-> 0,
     response |-> Undef]

WriteSent(success, dataItemId, value, hasStatusCode, statusCode, error, response) ==
    [kind |-> "write", payload |-> [t |-> "object", s |-> <<>>], dataItemId |-> dataItemId,
     timestamp |-> Undef, sequence |-> Undef, name |-> Undef, error |-> error,
     success |-> success, value |-> value, hasStatusCode |-> hasStatusCode,
     statusCode |-> statusCode, response |-> response]

(***************************************************************************)
(* Requests                                                                *)
(***************************************************************************)
\* st: "open" (in flight), "hangup" (destroyed before any response; the runtime
\* still owes the 'error' event), "closed"
Request(type, url, parent, body) ==
    [type |-> type, url |-> url, st |-> "open", parent |-> parent, body |-> body]

Close(rs, r) == [rs EXCEPT ![r].st = "closed"]

\* mutants of CacheHit: the lookup never finds an entry; the lookup tests the
\* truthiness of the cached verdict
CacheHit_Never(cache, cacheKey) == FALSE
CacheHit_Truthy(cache, cacheKey) ==
    IF cacheKey \in DOMAIN cache THEN cache[cacheKey].isSolutionEngine ELSE FALSE

\* brokerTypeCache[cacheKey] !== undefined
CacheHit(cache, cacheKey) == cacheKey \in DOMAIN cache

\* mutants of CacheStore: the verdict is not stored; the store replaces the
\* whole cache by the one entry
CacheStore_Skip(cache, cacheKey, isSolutionEngine) == cache
CacheStore_Reset(cache, cacheKey, isSolutionEngine) ==
    [k \in {cacheKey} |-> [isSolutionEngine |-> isSolutionEngine]]

\* brokerTypeCache[cacheKey] = { isSolutionEngine }
CacheStore(cache, cacheKey, isSolutionEngine) ==
    [k \in DOMAIN cache \cup {cacheKey} |->
        IF k = cacheKey THEN [isSolutionEngine |-> isSolutionEngine] ELSE cache[k]]

\* `${hostname}:${port}`
CacheKey(hostname, port) == hostname \o <<":">> \o port.s

\* the number of requests issued so far
RECURSIVE Issued(_)
Issued(m) == IF m = 0 THEN 0 ELSE Len(reqs[m]) + Issued(m - 1)

\* one more request fits the run
CanIssue == Issued(NMsgs) < MaxReqs

\* the next message to arrive
Arrives(m) == msgs[m].st = "new" /\ (IF m = 1 THEN TRUE ELSE msgs[m - 1].st # "new")

(***************************************************************************)
(* Read pipeline: mtconnect-dataitem                                       *)
(***************************************************************************)
\* fetchDataItem(node, url, dataItemId, msg, send, done, isHttps): issues the GET
fetchDataItem(rs, url, parent) == Append(rs, Request("fetch", url, parent, <<>>))

\* detectBrokerType(host, port, protocol, isHttps, callback): issues the probe
detectBrokerType(rs, host, port, protocol) ==
    Append(rs, Request("probe", BaseUrl(host, port.s, protocol) \o SE_PATH, 0, <<>>))

\* node.on('input', ...) of the read node
ReadInput(m, msg) ==
    /\ Arrives(m)
    /\ LET rawHost == Or(msg.host, readNode.host)
           port == Or(msg.port, readNode.port)
           path == IF msg.path # Undef THEN msg.path ELSE readNode.path
           dataItemId == Or(msg.dataItemId, readNode.dataItemId)
           n == normalizeHost(rawHost)
           cacheKey == CacheKey(n.hostname, port)
           absent == [NewMsg EXCEPT !.st = "missing", !.kind = "read",
                         !.noHost = Falsy(msg.host) /\ Falsy(readNode.host),
                         !.noId = Falsy(msg.dataItemId) /\ Falsy(readNode.dataItemId)]
           \* hit, hitVerdict: whether the key had an entry when the message was
           \* handled, and the verdict of that entry
           closure == [absent EXCEPT !.st = "active",
                          !.hostname = n.hostname, !.port = port, !.path = path,
                          !.protocol = n.protocol, !.isHttps = n.isHttps,
                          !.dataItemId = dataItemId, !.cacheKey = cacheKey,
                          !.hit = cacheKey \in DOMAIN brokerTypeCache,
                          !.hitVerdict = IF cacheKey \in DOMAIN brokerTypeCache
                                         THEN brokerTypeCache[cacheKey].isSolutionEngine
                                         ELSE FALSE]
       IN IF Falsy(rawHost)
          THEN /\ out' = [out EXCEPT ![m] = Done(NodeError(@, "No host specified"))]
               /\ msgs' = [msgs EXCEPT ![m] = absent]
               /\ UNCHANGED <<reqs, brokerTypeCache>>
          ELSE IF Falsy(dataItemId)
          THEN /\ out' = [out EXCEPT ![m] =
                            Done(NodeError(@, "No data item ID specified"))]
               /\ msgs' = [msgs EXCEPT ![m] = absent]
               /\ UNCHANGED <<reqs, brokerTypeCache>>
          ELSE IF CacheHit(brokerTypeCache, cacheKey)
          THEN /\ CanIssue
               /\ reqs' = [reqs EXCEPT ![m] = fetchDataItem(@,
                             buildUrl(n.hostname, port.s, path,
                                      brokerTypeCache[cacheKey].isSolutionEngine, n.protocol), 0)]
               /\ msgs' = [msgs EXCEPT ![m] = closure]
               /\ UNCHANGED <<out, brokerTypeCache>>
          ELSE /\ CanIssue
               /\ reqs' = [reqs EXCEPT ![m] = detectBrokerType(@, n.hostname, port, n.protocol)]
               /\ msgs' = [msgs EXCEPT ![m] = closure]
               /\ UNCHANGED <<out, brokerTypeCache>>
    /\ UNCHANGED <<readNode, writeNode, call>>

\* mutant of ProbeVerdict: the body is not checked for MTConnectError
ProbeVerdict_NoErrorCheck(statusCode, data) == statusCode = 200 /\ Includes(data, STREAMS)

\* the condition of res.on('end') in detectBrokerType
ProbeVerdict(statusCode, data) ==
    statusCode = 200 /\ Includes(data, STREAMS) /\ ~Includes(data, ERRORDOC)

\* the callback the input handler passes to detectBrokerType, invoked by a
\* handler of probe r of message m with the verdict isSolutionEngine; st is the
\* state the handler leaves the probe in
DetectCallback(m, r, st, isSolutionEngine) ==
    LET c == msgs[m]
    IN /\ CanIssue
       /\ brokerTypeCache' = CacheStore(brokerTypeCache, c.cacheKey, isSolutionEngine)
       /\ reqs' = [reqs EXCEPT ![m] = fetchDataItem([@ EXCEPT ![r].st = st],
                     buildUrl(c.hostname, c.port.s, c.path, isSolutionEngine, c.protocol), r)]
       /\ out' = [out EXCEPT ![m].writes = @ + 1]
       /\ UNCHANGED <<msgs, readNode, writeNode, call>>

IsReq(m, r, type, st) ==
    r \in 1..Len(reqs[m]) /\ reqs[m][r].type = type /\ reqs[m][r].st = st

\* the probe response ends: res.on('end')
ProbeEnd(m, r, statusCode, data) ==
    /\ IsReq(m, r, "probe", "open")
    /\ DetectCallback(m, r, "closed", ProbeVerdict(statusCode, data))

\* mutant of ProbeError: the probe's error is reported and ends the message
ProbeError_Reports(m, r) ==
    /\ IsReq(m, r, "probe", "open")
    /\ out' = [out EXCEPT ![m] = Done(NodeError(@, "HTTP request failed"))]
    /\ reqs' = [reqs EXCEPT ![m] = Close(@, r)]
    /\ UNCHANGED <<msgs, brokerTypeCache, readNode, writeNode, call>>

\* the probe fails at transport level: req.on('error')
ProbeError(m, r) ==
    /\ IsReq(m, r, "probe", "open")
    /\ DetectCallback(m, r, "closed", FALSE)

\* the state req.destroy() leaves a request in: destroying a request that has
\* no response yet makes the runtime emit 'error' (socket hang up) on the
\* request afterwards; once the response has started (responded) the request
\* emits no 'error'
Destroyed(responded) == IF responded THEN "closed" ELSE "hangup"

\* the probe's socket is idle for 3000 ms: the req.setTimeout callback
ProbeTimeout(m, r, responded) ==
    /\ IsReq(m, r, "probe", "open")
    /\ DetectCallback(m, r, Destroyed(responded), FALSE)

\* the 'error' event that follows req.destroy(): req.on('error')
ProbeHangup(m, r) ==
    /\ IsReq(m, r, "probe", "hangup")
    /\ DetectCallback(m, r, "closed", FALSE)

\* res.on('end') of fetchDataItem
FetchEndHandler(o, dataItemId, data) ==
    LET result == findDataItemInXml(data, dataItemId)
    IN IF result.threw
       THEN Done(NodeError(o, "Failed to parse MTConnect response"))
       ELSE IF result.found
       THEN Done(Send(o, ReadSent(result.value, dataItemId, result.timestamp,
                                  result.sequence, result.name, Undef)))
       ELSE Done(Send(o, ReadSent(Null, dataItemId, Undef, Undef, Undef,
                                  Str(<<"not found">>))))

\* the fetch response ends
FetchEnd(m, r, statusCode, data) ==
    /\ IsReq(m, r, "fetch", "open")
    /\ out' = [out EXCEPT ![m] = FetchEndHandler(@, msgs[m].dataItemId, data)]
    /\ reqs' = [reqs EXCEPT ![m] = Close(@, r)]
    /\ UNCHANGED <<msgs, brokerTypeCache, readNode, writeNode, call>>

\* .on('error') of fetchDataItem
FetchErrorHandler(o) == Done(NodeError(o, "HTTP request failed"))

\* the fetch fails at transport level
FetchError(m, r) ==
    /\ IsReq(m, r, "fetch", "open")
    /\ out' = [out EXCEPT ![m] = FetchErrorHandler(@)]
    /\ reqs' = [reqs EXCEPT ![m] = Close(@, r)]
    /\ UNCHANGED <<msgs, brokerTypeCache, readNode, writeNode, call>>

(***************************************************************************)
(* Write pipeline: engine-set-dataitem                                     *)
(***************************************************************************)
\* mutant of ValueMissing: the value is not checked
ValueMissing_Never(value) == FALSE

\* value === undefined || value === null
ValueMissing(value) == value = Undef \/ value = Null

\* node.on('input', ...) of the write node
WriteInput(m, msg) ==
    /\ Arrives(m)
    /\ LET rawHost == Or(msg.host, writeNode.host)
           port == Or(msg.port, writeNode.port)
           dataItemId == Or(msg.dataItemId, writeNode.dataItemId)
           value == IF msg.value # Undef THEN msg.value ELSE msg.payload
           n == normalizeHost(rawHost)
           absent == [NewMsg EXCEPT !.st = "missing", !.kind = "write",
                         !.noHost = Falsy(msg.host) /\ Falsy(writeNode.host),
                         !.noId = Falsy(msg.dataItemId) /\ Falsy(writeNode.dataItemId),
                         !.noValue = msg.value = Undef /\ msg.payload = Undef]
           closure == [absent EXCEPT !.st = "active",
                          !.hostname = n.hostname, !.port = port,
                          !.protocol = n.protocol, !.isHttps = n.isHttps,
                          !.dataItemId = dataItemId, !.value = value]
       IN IF Falsy(rawHost)
          THEN /\ out' = [out EXCEPT ![m] = Done(NodeError(@, "No host specified"))]
               /\ msgs' = [msgs EXCEPT ![m] = absent]
               /\ UNCHANGED reqs
          ELSE IF Falsy(dataItemId)
          THEN /\ out' = [out EXCEPT ![m] =
                            Done(NodeError(@, "No data item ID specified"))]
               /\ msgs' = [msgs EXCEPT ![m] = absent]
               /\ UNCHANGED reqs
          ELSE IF ValueMissing(value)
          THEN /\ out' = [out EXCEPT ![m] = Done(NodeError(@, "No value specified"))]
               /\ msgs' = [msgs EXCEPT ![m] = absent]
               /\ UNCHANGED reqs
          ELSE IF dataItemId.t # "string"
          THEN \* escapeXml(dataItemId) throws a TypeError out of the handler
               /\ msgs' = [msgs EXCEPT ![m] = [absent EXCEPT !.st = "threw"]]
               /\ UNCHANGED <<out, reqs>>
          ELSE /\ CanIssue
               /\ reqs' = [reqs EXCEPT ![m] = Append(@, Request("post",
                             BaseUrl(n.hostname, port.s, n.protocol) \o WRITE_PATH, 0,
                             WriteBody(dataItemId, value)))]
               /\ msgs' = [msgs EXCEPT ![m] = closure]
               /\ UNCHANGED out
    /\ UNCHANGED <<brokerTypeCache, readNode, writeNode, call>>

\* mutant of IsSuccess: only 200 counts as a success
IsSuccess_Only200(statusCode) == statusCode = 200

\* res.statusCode >= 200 && res.statusCode < 300
IsSuccess(statusCode) == statusCode >= 200 /\ statusCode < 300

\* mutant of JsonResponse: the body is never parsed
JsonResponse_Raw(data) == Str(data)

\* try { msg.response = JSON.parse(data) } catch (e) { msg.response = data }
JsonResponse(data) == IF JsonParse(data).ok THEN JsonParse(data).value ELSE Str(data)

\* res.on('end') of the POST
PostEndHandler(o, c, statusCode, data) ==
    LET response == IF data = <<>> THEN Undef ELSE JsonResponse(data)
    IN IF IsSuccess(statusCode)
       THEN Done(Send(o, WriteSent(TRUE, c.dataItemId, c.value, TRUE, statusCode,
                                   Undef, response)))
       ELSE Done(Send(NodeError(o, "HTTP status"),
                      WriteSent(FALSE, c.dataItemId, c.value, TRUE, statusCode,
                                Str(data), Undef)))

\* the POST response ends
PostEnd(m, r, statusCode, data) ==
    /\ IsReq(m, r, "post", "open")
    /\ out' = [out EXCEPT ![m] = PostEndHandler(@, msgs[m], statusCode, data)]
    /\ reqs' = [reqs EXCEPT ![m] = Close(@, r)]
    /\ UNCHANGED <<msgs, brokerTypeCache, readNode, writeNode, call>>

\* req.on('error') of the POST
PostErrorHandler(o, c) ==
    Done(Send(NodeError(o, "HTTP request failed"),
              WriteSent(FALSE, c.dataItemId, c.value, FALSE, 0, Str(<<"err.message">>),
                        Undef)))

\* the POST fails at transport level
PostError(m, r) ==
    /\ IsReq(m, r, "post", "open")
    /\ out' = [out EXCEPT ![m] = PostErrorHandler(@, msgs[m])]
    /\ reqs' = [reqs EXCEPT ![m] = Close(@, r)]
    /\ UNCHANGED <<msgs, brokerTypeCache, readNode, writeNode, call>>

\* the req.setTimeout callback of the POST
PostTimeoutHandler(o) == Done(NodeError(o, "Request timed out"))

\* the POST's socket is idle for 10000 ms
PostTimeout(m, r, responded) ==
    /\ IsReq(m, r, "post", "open")
    /\ out' = [out EXCEPT ![m] = PostTimeoutHandler(@)]
    /\ reqs' = [reqs EXCEPT ![m] = [@ EXCEPT ![r].st = Destroyed(responded)]]
    /\ UNCHANGED <<msgs, brokerTypeCache, readNode, writeNode, call>>

\* the 'error' event that follows req.destroy()
PostHangup(m, r) ==
    /\ IsReq(m, r, "post", "hangup")
    /\ out' = [out EXCEPT ![m] = PostErrorHandler(@, msgs[m])]
    /\ reqs' = [reqs EXCEPT ![m] = Close(@, r)]
    /\ UNCHANGED <<msgs, brokerTypeCache, readNode, writeNode, call>>

(***************************************************************************)
(* Specification                                                           *)
(***************************************************************************)
\* a message issues at most three requests
Reqs == 1..3

Next ==
    \/ \E m \in Msgs, msg \in ReadMsgs : ReadInput(m, msg)
    \/ \E m \in Msgs, msg \in WriteMsgs : WriteInput(m, msg)
    \/ \E m \in Msgs, r \in Reqs, res \in ProbeResponses :
          ProbeEnd(m, r, res.statusCode, res.data)
    \/ \E m \in Msgs, r \in Reqs : ProbeError(m, r)
    \/ \E m \in Msgs, r \in Reqs, responded \in BOOLEAN : ProbeTimeout(m, r, responded)
    \/ \E m \in Msgs, r \in Reqs : ProbeHangup(m, r)
    \/ \E m \in Msgs, r \in Reqs, res \in FetchResponses :
          FetchEnd(m, r, res.statusCode, res.data)
    \/ \E m \in Msgs, r \in Reqs : FetchError(m, r)
    \/ \E m \in Msgs, r \in Reqs, res \in PostResponses :
          PostEnd(m, r, res.statusCode, res.data)
    \/ \E m \in Msgs, r \in Reqs : PostError(m, r)
    \/ \E m \in Msgs, r \in Reqs, responded \in BOOLEAN : PostTimeout(m, r, responded)
    \/ \E m \in Msgs, r \in Reqs : PostHangup(m, r)

Spec == Init /\ [][Next]_vars

\* the idle timer of request r of message m fires: the req.setTimeout callbacks
\* (fetchDataItem sets none)
TimerFires(m, r) ==
    \E responded \in BOOLEAN : ProbeTimeout(m, r, responded) \/ PostTimeout(m, r, responded)

\* the runtime emits the 'error' event it owes to a destroyed request
HangupEmitted(m, r) == ProbeHangup(m, r) \/ PostHangup(m, r)

\* the timers and the event loop are fair; the broker is not: it may never
\* answer and the connection may never fail
SpecLive ==
    /\ Init
    /\ [][Next]_vars
    /\ \A m \in Msgs, r \in Reqs :
          WF_vars(TimerFires(m, r)) /\ WF_vars(HangupEmitted(m, r))

(***************************************************************************)
(* The pure functions applied on their own                                 *)
(*                                                                         *)
(* call holds one application: Init draws the function and its arguments,  *)
(* the function's action computes the result.                              *)
(***************************************************************************)
\* longest string drawn, in atoms
MaxLen == 3
\* most trailing slashes appended to a host
MaxSlashes == 2
\* most elements of a document
MaxElems == 2
\* longest data-item id and value of a write body, in atoms
MaxBodyLen == 2

\* the strings over alphabet of at most n atoms
SeqsUpTo(alphabet, n) == UNION {[1..k -> alphabet] : k \in 0..n}

\* n slashes
RECURSIVE Slashes(_)
Slashes(n) == IF n = 0 THEN <<>> ELSE <<"/">> \o Slashes(n - 1)

\* raw hosts: an optional scheme prefix, then a string over a, / and :
Prefixes == {<<>>, HTTP_PREFIX, HTTPS_PREFIX}
Hosts == {q \o s : q \in Prefixes, s \in SeqsUpTo({"a", "/", ":"}, MaxLen)}

\* path arguments of buildUrl: msg.path or node.path
Paths == {Undef, Null} \cup {Str(s) : s \in SeqsUpTo({"/", "foo"}, MaxLen)}

\* arguments of escapeXml
XmlAlphabet == {"&", "<", ">", "\"", "'", "a", "lt", ";"}
XmlStrings == SeqsUpTo(XmlAlphabet, MaxLen)

\* ids and values of a write body
BodyStrings == SeqsUpTo({"<", ">", "\"", "Value", "DataItem"}, MaxBodyLen)

\* elements of an MTConnect current document: tag, dataItemId, the optional
\* attributes (Null when the tag has none), the text content and its trimmed
\* form; nameFirst puts the name attribute before dataItemId
Element(tag, id, timestamp, sequence, name, nameFirst, text, trimmed) ==
    [tag |-> tag, id |-> id, timestamp |-> timestamp, sequence |-> sequence,
     name |-> name, nameFirst |-> nameFirst, text |-> text, trimmed |-> trimmed]

Elements ==
    { Element("DataItem", ID_XY, Str(<<"T">>), Str(<<"5">>), Null, FALSE, <<"42">>, <<"42">>),
      Element("DataItem", ID_XY, Str(<<"T">>), Str(<<"5">>), Str(<<"N">>), FALSE,
              <<"42">>, <<"42">>),
      Element("DataItem", ID_XY, Str(<<"T">>), Str(<<"5">>), Str(<<>>), FALSE,
              <<"42">>, <<"42">>),
      Element("Item", ID_XY, Null, Null, Str(<<>>), FALSE, <<" ", "7", "\n">>, <<"7">>),
      Element("A", ID_XY, Str(<<"T2">>), Null, Str(<<"N2">>), TRUE, <<>>, <<>>),
      Element("A", <<"X", "x", "Y">>, Str(<<"T2">>), Null, Null, FALSE, <<"7">>, <<"7">>),
      Element("B", <<"x", ".", "y">>, Null, Str(<<"6">>), Null, FALSE, <<"7">>, <<"7">>) }

\* name="value" inside an opening tag
Attr(name, v) == IF v = Null THEN <<>> ELSE <<" ", name, "=", "\"">> \o v.s \o <<"\"">>

\* the text of an element
RenderElement(e) ==
    <<"<", e.tag>>
    \o (IF e.nameFirst THEN Attr("name", e.name) ELSE <<>>)
    \o Attr("dataItemId", Str(e.id))
    \o Attr("timestamp", e.timestamp) \o Attr("sequence", e.sequence)
    \o (IF e.nameFirst THEN <<>> ELSE Attr("name", e.name))
    \o <<">">> \o e.text \o <<"<", "/", e.tag, ">">>

RECURSIVE RenderElements(_)
RenderElements(es) ==
    IF es = <<>> THEN <<>> ELSE RenderElement(Head(es)) \o RenderElements(Tail(es))

\* the text of a document
RenderDocument(es) ==
    <<"<", "MTConnectStreams", ">">> \o RenderElements(es)
    \o <<"<", "/", "MTConnectStreams", ">">>

Documents == SeqsUpTo(Elements, MaxElems)

\* queried ids
QueryIds == {ID_XY, <<"x", ".", "y">>, <<"Y">>}

Call(fn, args) == [fn |-> fn, args |-> args, returned |-> FALSE, result |-> Undef]

InitFn ==
    /\ readNode = MTConnectDataItemNode(NoConfig)
    /\ writeNode = SolutionEngineSetDataItemNode(NoConfig)
    /\ brokerTypeCache = [k \in {} |-> [isSolutionEngine |-> FALSE]]
    /\ msgs = [m \in Msgs |-> NewMsg]
    /\ reqs = [m \in Msgs |-> <<>>]
    /\ out = [m \in Msgs |-> NewOut]
    /\ \/ \E p \in Prefixes, h \in Hosts, n \in 0..MaxSlashes :
             call = Call("normalizeHost", [p |-> p, h |-> h, n |-> n])
       \/ \E path \in Paths, isSolutionEngine \in BOOLEAN,
             protocol \in {HTTP_PROTO, HTTPS_PROTO} :
             call = Call("buildUrl", [host |-> <<"h">>, port |-> <<"5000">>, path |-> path,
                                      isSolutionEngine |-> isSolutionEngine,
                                      protocol |-> protocol])
       \/ \E es \in Documents, id \in QueryIds :
             call = Call("findDataItemInXml", [es |-> es, dataItemId |-> id])
       \/ \E s \in XmlStrings : call = Call("escapeXml", [str |-> s])
       \/ \E id \in BodyStrings, v \in BodyStrings, isNumber \in BOOLEAN :
             call = Call("body", [dataItemId |-> id,
                                  value |-> IF isNumber THEN Num(<<"7">>) ELSE Str(v)])

Returns(fn, result) ==
    /\ call.fn = fn
    /\ ~call.returned
    /\ call' = [call EXCEPT !.returned = TRUE, !.result = result]
    /\ UNCHANGED <<readNode, writeNode, brokerTypeCache, msgs, reqs, out>>

\* normalizeHost(p + h + n slashes), and normalizeHost(h) beside it
CallNormalizeHost ==
    /\ call.fn = "normalizeHost"
    /\ Returns("normalizeHost",
               [of |-> normalizeHost(Str(call.args.p \o call.args.h \o Slashes(call.args.n))),
                bare |-> normalizeHost(Str(call.args.h))])

CallBuildUrl ==
    /\ call.fn = "buildUrl"
    /\ Returns("buildUrl", buildUrl(call.args.host, call.args.port, call.args.path,
                                    call.args.isSolutionEngine, call.args.protocol))

CallFindDataItemInXml ==
    /\ call.fn = "findDataItemInXml"
    /\ Returns("findDataItemInXml",
               findDataItemInXml(RenderDocument(call.args.es), Str(call.args.dataItemId)))

CallEscapeXml ==
    /\ call.fn = "escapeXml"
    /\ Returns("escapeXml", escapeXml(call.args.str))

CallWriteBody ==
    /\ call.fn = "body"
    /\ Returns("body", WriteBody(Str(call.args.dataItemId), call.args.value))

NextFn ==
    \/ CallNormalizeHost
    \/ CallBuildUrl
    \/ CallFindDataItemInXml
    \/ CallEscapeXml
    \/ CallWriteBody

SpecFn == InitFn /\ [][NextFn]_vars

(***************************************************************************)
(* Properties                                                              *)
(***************************************************************************)
\* the requests of type issued for message m
OfType(m, type) == {r \in 1..Len(reqs[m]) : reqs[m][r].type = type}

IsRead(m) == msgs[m].kind = "read" /\ msgs[m].st = "active"
IsWrite(m) == msgs[m].kind = "write" /\ msgs[m].st = "active"

\* the two URL shapes of the read pipeline, for the closure c
Origin(c) == c.protocol \o <<"/", "/">> \o c.hostname \o <<":">> \o c.port.s
IsSolutionEngineUrl(c, url) == url = Origin(c) \o <<"/", "api", "/", "v6", "/", "mtc", "/", "current">>
IsGenericUrl(c, url) ==
    /\ StartsWith(url, Origin(c) \o <<"/">>)
    /\ ~IsSolutionEngineUrl(c, url)
    /\ SubSeq(url, Len(url) - 1, Len(url)) = <<"/", "current">>

\* C1: a read message whose hostname:port key has a cache entry when it is
\* handled issues no detection probe; its only request is the fetch, to the
\* URL of the cached verdict.
C1_CacheHitNoProbe ==
    \A m \in Msgs :
        (IsRead(m) /\ msgs[m].hit) =>
            /\ Len(reqs[m]) = 1
            /\ reqs[m][1].type = "fetch"
            /\ IF msgs[m].hitVerdict
               THEN IsSolutionEngineUrl(msgs[m], reqs[m][1].url)
               ELSE IsGenericUrl(msgs[m], reqs[m][1].url)

C1_Witness ==
    \E m \in Msgs :
        /\ IsRead(m) /\ msgs[m].hit /\ msgs[m].hitVerdict
        /\ Len(reqs[m]) = 1 /\ reqs[m][1].st = "closed"
        /\ out[m].dones = 1

\* the last request issued for message m, after the step
LastReq(m) == reqs'[m][Len(reqs'[m])]

\* C2: a detection probe that completes yields the verdict true if and only if
\* its status is 200 and its body contains MTConnectStreams and does not
\* contain MTConnectError; the verdict is the one stored and the one the fetch
\* URL is built from.
C2_ProbeVerdict ==
    [][\A m \in Msgs, r \in Reqs, res \in ProbeResponses :
          ProbeEnd(m, r, res.statusCode, res.data) =>
             LET verdict == /\ res.statusCode = 200
                            /\ Includes(res.data, <<"MTConnectStreams">>)
                            /\ ~Includes(res.data, <<"MTConnectError">>)
             IN /\ brokerTypeCache'[msgs[m].cacheKey].isSolutionEngine = verdict
                /\ IF verdict THEN IsSolutionEngineUrl(msgs[m], LastReq(m).url)
                              ELSE IsGenericUrl(msgs[m], LastReq(m).url)]_vars

C2_Witness ==
    \E m \in Msgs, r \in Reqs :
        /\ IsRead(m) /\ ~msgs[m].hit
        /\ r \in OfType(m, "fetch")
        /\ reqs[m][r].parent # 0
        /\ reqs[m][reqs[m][r].parent].st = "closed"
        /\ IsSolutionEngineUrl(msgs[m], reqs[m][r].url)
        /\ brokerTypeCache[msgs[m].cacheKey].isSolutionEngine

\* C3: a read message issues at most two requests, at most one probe followed
\* by at most one fetch, never in flight together; a write message issues at
\* most one request.
C3_AtMostTwoRequests ==
    \A m \in Msgs :
        /\ IsRead(m) =>
              /\ Cardinality(OfType(m, "probe")) <= 1
              /\ Cardinality(OfType(m, "fetch")) <= 1
              /\ Len(reqs[m]) <= 2
              /\ \A p \in OfType(m, "probe"), f \in OfType(m, "fetch") :
                    ~(reqs[m][p].st = "open" /\ reqs[m][f].st = "open")
        /\ IsWrite(m) => Len(reqs[m]) <= 1

\* C4: for every inbound message node.error and done are each invoked at most
\* once and at most one result message is sent.
C4_SurfacedOnce ==
    \A m \in Msgs :
        /\ Len(out[m].errors) <= 1
        /\ out[m].dones <= 1
        /\ Len(out[m].sent) <= 1

\* a sent message that carries a structured failure payload
IsFailurePayload(e) ==
    \/ e.kind = "write" /\ ~e.success /\ e.error # Undef
    \/ e.kind = "read" /\ e.payload = Null /\ e.error # Undef

\* every request of message m has run its last handler
Quiescent(m) == \A r \in 1..Len(reqs[m]) : reqs[m][r].st = "closed"

\* C5: every message that passed the input checks and ended has sent a result
\* message, and when an error was reported for it the message carries a
\* structured failure payload; only a missing input ends a message without
\* sending anything.
C5_FailurePayloadSent ==
    \A m \in Msgs :
        (msgs[m].st = "active" /\ out[m].dones >= 1 /\ Quiescent(m)) =>
            /\ out[m].sent # <<>>
            /\ out[m].errors # <<>> =>
                  \E i \in 1..Len(out[m].sent) : IsFailurePayload(out[m].sent[i])

\* what a failed probe must leave behind: nothing reported, the message not
\* ended, the verdict false, the generic fetch issued
ProbeFellBack(m) ==
    /\ out'[m].errors = out[m].errors
    /\ out'[m].dones = out[m].dones
    /\ out'[m].sent = out[m].sent
    /\ ~brokerTypeCache'[msgs[m].cacheKey].isSolutionEngine
    /\ Len(reqs'[m]) = Len(reqs[m]) + 1
    /\ LastReq(m).type = "fetch" /\ LastReq(m).st = "open"
    /\ IsGenericUrl(msgs[m], LastReq(m).url)

\* C6: a failed detection probe (non-200 status, body without MTConnectStreams
\* or with MTConnectError, connection error, timeout) reports no error and does
\* not end the message: the verdict is false and the fetch is issued with the
\* generic URL shape.
C6_ProbeFailureFallsBack ==
    [][\A m \in Msgs, r \in Reqs :
          /\ \A res \in ProbeResponses :
                (/\ ProbeEnd(m, r, res.statusCode, res.data)
                 /\ \/ res.statusCode # 200
                    \/ ~Includes(res.data, <<"MTConnectStreams">>)
                    \/ Includes(res.data, <<"MTConnectError">>))
                => ProbeFellBack(m)
          /\ (IsReq(m, r, "probe", "open") /\ reqs'[m][r].st # "open") =>
                \/ \E res \in ProbeResponses : ProbeEnd(m, r, res.statusCode, res.data)
                \/ ProbeFellBack(m)
          /\ (IsReq(m, r, "probe", "hangup") /\ reqs'[m][r].st # "hangup") =>
                ProbeFellBack(m)]_vars

C6_Witness ==
    \E m \in Msgs, r \in Reqs :
        /\ IsRead(m) /\ ~msgs[m].hit
        /\ r \in OfType(m, "fetch")
        /\ reqs[m][r].parent # 0
        /\ IsGenericUrl(msgs[m], reqs[m][r].url)
        /\ reqs[m][r].st = "closed"
        /\ out[m].sent # <<>>

\* C7: whenever a fetch has been issued for a read message, the cache has an
\* entry for the message's hostname:port key.
C7_CachedBeforeFetch ==
    \A m \in Msgs :
        (IsRead(m) /\ OfType(m, "fetch") # {}) => msgs[m].cacheKey \in DOMAIN brokerTypeCache

C7_Witness ==
    \E m \in Msgs, r \in Reqs :
        /\ IsRead(m) /\ ~msgs[m].hit
        /\ r \in OfType(m, "fetch")
        /\ reqs[m][r].st = "open"
        /\ reqs[m][r].parent # 0
        /\ ~brokerTypeCache[msgs[m].cacheKey].isSolutionEngine

\* C8 as stated: once a key has an entry, the entry is never removed and its
\* verdict never changes.
C8_VerdictNeverChanges ==
    [][\A k \in DOMAIN brokerTypeCache :
          /\ k \in DOMAIN brokerTypeCache'
          /\ brokerTypeCache'[k] = brokerTypeCache[k]]_vars

\* C8 amended: once a key has an entry, the entry is never removed, and its
\* verdict is changed only by the probe callback of a message that was handled
\* while the key had no entry.
C8_EntryKeptFirstTimersWrite ==
    [][\A k \in DOMAIN brokerTypeCache :
          /\ k \in DOMAIN brokerTypeCache'
          /\ brokerTypeCache'[k] # brokerTypeCache[k] =>
                \E m \in Msgs :
                    /\ IsRead(m) /\ msgs[m].cacheKey = k /\ ~msgs[m].hit
                    /\ out'[m].writes = out[m].writes + 1]_vars

\* two first-time messages for one key whose probes gave different verdicts
C8_Witness ==
    \E m1, m2 \in Msgs, r1, r2 \in Reqs :
        /\ m1 # m2 /\ IsRead(m1) /\ IsRead(m2)
        /\ msgs[m1].cacheKey = msgs[m2].cacheKey
        /\ ~msgs[m1].hit /\ ~msgs[m2].hit
        /\ r1 \in OfType(m1, "fetch") /\ r2 \in OfType(m2, "fetch")
        /\ IsSolutionEngineUrl(msgs[m1], reqs[m1][r1].url)
        /\ IsGenericUrl(msgs[m2], reqs[m2][r2].url)
        /\ \E k \in DOMAIN brokerTypeCache : TRUE

\* the cache writes made for key k
RECURSIVE WritesTo(_, _)
WritesTo(k, m) ==
    IF m = 0 THEN 0
    ELSE (IF msgs[m].cacheKey = k THEN out[m].writes ELSE 0) + WritesTo(k, m - 1)

\* C9 as stated: at most one cache write happens for a key.
C9_WrittenOnce ==
    \A m \in Msgs : IsRead(m) => WritesTo(msgs[m].cacheKey, NMsgs) <= 1

\* C9 amended: a key gets its entry with the first probe callback for it; a
\* message handled once the entry exists issues no probe and writes nothing (it
\* reuses the entry), and a message handled before writes once per callback of
\* its own probe.
C9_ReusedOnceCached ==
    \A m \in Msgs :
        IsRead(m) =>
            /\ msgs[m].cacheKey \in DOMAIN brokerTypeCache
                  <=> WritesTo(msgs[m].cacheKey, NMsgs) >= 1
            /\ msgs[m].hit => (out[m].writes = 0 /\ OfType(m, "probe") = {})
            /\ ~msgs[m].hit =>
                  /\ Cardinality(OfType(m, "probe")) = 1
                  /\ out[m].writes = Cardinality(OfType(m, "fetch"))

\* a key written twice, and a later message that reused the entry
C9_Witness ==
    \E m1, m2 \in Msgs :
        /\ m1 # m2 /\ IsRead(m1) /\ IsRead(m2)
        /\ msgs[m1].cacheKey = msgs[m2].cacheKey
        /\ out[m1].writes = 2
        /\ msgs[m2].hit /\ out[m2].writes = 0 /\ Len(reqs[m2]) = 1

\* a required input of message m is missing
MissingInput(m) ==
    \/ msgs[m].noHost
    \/ msgs[m].noId
    \/ msgs[m].kind = "write" /\ msgs[m].noValue

\* C10: a message with a missing required input reports it on the error
\* channel, sends nothing, acknowledges completion once, writes no cache entry
\* and issues no request.
C10_MissingInputNoRequest ==
    \A m \in Msgs :
        (msgs[m].st # "new" /\ MissingInput(m)) =>
            /\ reqs[m] = <<>>
            /\ Len(out[m].errors) = 1
            /\ out[m].errors[1] \in {"No host specified", "No data item ID specified",
                                     "No value specified"}
            /\ out[m].sent = <<>>
            /\ out[m].dones = 1
            /\ out[m].writes = 0

C10_Witness ==
    \E m \in Msgs :
        /\ msgs[m].kind = "write" /\ msgs[m].st = "missing"
        /\ msgs[m].noValue /\ ~msgs[m].noHost /\ ~msgs[m].noId
        /\ out[m].errors = <<"No value specified">>
        /\ out[m].dones = 1

\* the result message the step has just sent for message m
LastSent(m) == out'[m].sent[Len(out'[m].sent)]

\* the step sends exactly one result message for m, the only one so far
SendsOnly(m) == out[m].sent = <<>> /\ Len(out'[m].sent) = 1

\* C11: a write whose response completes with status s sends exactly one
\* result message, with success true if and only if 200 <= s <= 299, statusCode
\* s, the data-item id of the request and the original input value; outside
\* 200..299 error is the response body; a transport failure sends success
\* false, an error text and no statusCode.
C11_WriteOutcome ==
    [][\A m \in Msgs, r \in Reqs :
          /\ \A res \in PostResponses :
                PostEnd(m, r, res.statusCode, res.data) =>
                   /\ SendsOnly(m)
                   /\ LastSent(m).success <=> (200 <= res.statusCode /\ res.statusCode <= 299)
                   /\ LastSent(m).hasStatusCode /\ LastSent(m).statusCode = res.statusCode
                   /\ LastSent(m).dataItemId.t = "string"
                   /\ LastSent(m).value = Num(<<"0">>)
                   /\ reqs[m][r].body = WriteBody(LastSent(m).dataItemId, LastSent(m).value)
                   /\ ~LastSent(m).success => LastSent(m).error = Str(res.data)
                   /\ LastSent(m).success => LastSent(m).error = Undef
          /\ (PostError(m, r) \/ PostHangup(m, r)) =>
                   /\ Len(out'[m].sent) = Len(out[m].sent) + 1
                   /\ ~LastSent(m).success
                   /\ LastSent(m).error.t = "string"
                   /\ ~LastSent(m).hasStatusCode
                   /\ LastSent(m).dataItemId = msgs[m].dataItemId
                   /\ LastSent(m).value = Num(<<"0">>)]_vars

\* a 204 answered write that sent its success, and a write that failed at
\* transport level
C11_Witness ==
    \E m1, m2 \in Msgs :
        /\ IsWrite(m1) /\ Len(out[m1].sent) = 1
        /\ out[m1].sent[1].success /\ out[m1].sent[1].statusCode = 204
        /\ out[m1].sent[1].value = Num(<<"0">>)
        /\ IsWrite(m2) /\ Len(out[m2].sent) = 1
        /\ ~out[m2].sent[1].success /\ ~out[m2].sent[1].hasStatusCode
        /\ out[m2].errors = <<"HTTP request failed">>

\* the pure function fn has been applied
Returned(fn) == call.fn = fn /\ call.returned

\* the text of url after its scheme//hostname:port part starts with exactly one '/'
OneSlashAfterPort(url, base) ==
    /\ StartsWith(url, base \o <<"/">>)
    /\ Len(url) > Len(base) + 1
    /\ url[Len(base) + 2] # "/"

\* C12: buildUrl returns scheme//hostname:port/api/v6/mtc/current for a
\* Solution Engine, scheme//hostname:port/cleanPath/current for a non-empty
\* path (cleanPath: the path without its leading and trailing slashes) and
\* scheme//hostname:port/current otherwise, and the result always has exactly
\* one '/' between the port and the next path segment.
C12_UrlShape ==
    Returned("buildUrl") =>
        LET a == call.args
            base == a.protocol \o <<"/", "/">> \o a.host \o <<":">> \o a.port
            nonEmpty == a.path.t = "string" /\ a.path.s # <<>>
        IN /\ IF a.isSolutionEngine
              THEN call.result = base \o <<"/", "api", "/", "v6", "/", "mtc", "/", "current">>
              ELSE IF nonEmpty
              THEN call.result = base \o <<"/">>
                      \o StripTrailingSlashes(StripLeadingSlashes(a.path.s))
                      \o <<"/", "current">>
              ELSE call.result = base \o <<"/", "current">>
           /\ OneSlashAfterPort(call.result, base)

\* C13: for every host string h, prefix p and number n of trailing slashes,
\* normalizeHost(p + h + n slashes) has the hostname of normalizeHost(h), and
\* its isHttps is true exactly when p is https://.
C13_PrefixAndSlashesIgnored ==
    Returned("normalizeHost") =>
        /\ call.result.of.hostname = call.result.bare.hostname
        /\ call.result.of.isHttps <=> (call.args.p = <<"h", "t", "t", "p", "s", ":", "/", "/">>)

\* s starts with http:// or https://
HasSchemePrefix(s) ==
    \/ StartsWith(s, <<"h", "t", "t", "p", ":", "/", "/">>)
    \/ StartsWith(s, <<"h", "t", "t", "p", "s", ":", "/", "/">>)

\* C14: for every raw host string the hostname returned by normalizeHost does
\* not start with http:// or https:// and does not end with '/'.
C14_HostnameClean ==
    Returned("normalizeHost") =>
        LET hostname == call.result.of.hostname
        IN /\ ~HasSchemePrefix(hostname)
           /\ hostname # <<>> => hostname[Len(hostname)] # "/"

\* the elements of the document es whose dataItemId attribute is exactly id
Carriers(es, id) == {i \in 1..Len(es) : es[i].id = id}

\* the first of them in document order
FirstCarrier(es, id) ==
    es[CHOOSE i \in Carriers(es, id) : \A j \in Carriers(es, id) : i <= j]

\* the text of id after its last '.', the whole id when it has none
RECURSIVE SegmentAfterLastDot(_)
SegmentAfterLastDot(id) ==
    IF \E k \in 1..Len(id) : id[k] = "."
    THEN SegmentAfterLastDot(SubSeq(id, (CHOOSE k \in 1..Len(id) : id[k] = ".") + 1, Len(id)))
    ELSE id

\* the result that says no more than found: false
NotFound ==
    [threw |-> FALSE, found |-> FALSE, value |-> Undef, sequence |-> Undef,
     timestamp |-> Undef, name |-> Undef]

\* C15: the queried id is a literal, case-sensitive token: for a document in
\* which no element has exactly that dataItemId (ids that differ in letter
\* case, or that match only if '.' were a wildcard, included) the result is
\* found: false with no value, timestamp, sequence or name.
C15_NoMatchNotFound ==
    (Returned("findDataItemInXml") /\ Carriers(call.args.es, call.args.dataItemId) = {})
        => call.result = NotFound

\* the query X.Y on a document with the look-alikes XxY and x.y
C15_Witness ==
    /\ Returned("findDataItemInXml")
    /\ call.args.dataItemId = <<"X", ".", "Y">>
    /\ Carriers(call.args.es, call.args.dataItemId) = {}
    /\ Carriers(call.args.es, <<"X", "x", "Y">>) # {}
    /\ Carriers(call.args.es, <<"x", ".", "y">>) # {}
    /\ ~call.result.found

\* the query X.Y on a document whose first element with that id is
\* <DataItem dataItemId="X.Y" timestamp="T" sequence="5">42</DataItem>, with or
\* without a name attribute
ExampleQueried ==
    /\ Returned("findDataItemInXml")
    /\ call.args.dataItemId = <<"X", ".", "Y">>
    /\ Carriers(call.args.es, call.args.dataItemId) # {}
    /\ LET e == FirstCarrier(call.args.es, call.args.dataItemId)
       IN /\ e.tag = "DataItem" /\ e.text = <<"42">>
          /\ e.timestamp = Str(<<"T">>) /\ e.sequence = Str(<<"5">>)

\* what the example yields, but for the name
ExampleFields ==
    /\ call.result.found
    /\ call.result.value = Str(<<"42">>)
    /\ call.result.timestamp = Str(<<"T">>)
    /\ call.result.sequence = Str(<<"5">>)

\* C16 as stated: the example yields found, value 42, timestamp T, sequence 5,
\* and the name attribute as name when the element has one, X.Y otherwise.
C16_ExampleNameIsId ==
    ExampleQueried =>
        /\ ExampleFields
        /\ LET e == FirstCarrier(call.args.es, call.args.dataItemId)
           IN call.result.name = IF e.name # Null THEN e.name ELSE Str(<<"X", ".", "Y">>)

\* C16 amended: the example yields found, value 42, timestamp T, sequence 5,
\* and the name attribute as name when the element has a non-empty one, Y (the
\* text of the id after its last dot) otherwise.
C16_ExampleNameIsSegment ==
    ExampleQueried =>
        /\ ExampleFields
        /\ LET e == FirstCarrier(call.args.es, call.args.dataItemId)
           IN call.result.name =
                 IF e.name \notin {Null, Str(<<>>)} THEN e.name ELSE Str(<<"Y">>)

\* the example without a name attribute, answered with the name Y
C16_Witness ==
    /\ ExampleQueried
    /\ FirstCarrier(call.args.es, call.args.dataItemId).name = Null
    /\ call.result.value = Str(<<"42">>)
    /\ call.result.name = Str(<<"Y">>)

\* findDataItemInXml has found an element of the document
Found ==
    /\ Returned("findDataItemInXml")
    /\ Carriers(call.args.es, call.args.dataItemId) # {}
    /\ call.result.found

\* C17 as stated: timestamp and sequence are the like-named attributes of the
\* element's opening tag, null when the tag has none; name is the tag's name
\* attribute or, when it has none, the last dot-separated segment of the id.
C17_AttributesOrNull ==
    Found =>
        LET e == FirstCarrier(call.args.es, call.args.dataItemId)
        IN /\ call.result.timestamp = e.timestamp
           /\ call.result.sequence = e.sequence
           /\ call.result.name = IF e.name # Null THEN e.name
                                 ELSE Str(SegmentAfterLastDot(call.args.dataItemId))

\* C17 amended: timestamp and sequence as stated; name is the tag's name
\* attribute when the tag has one that is not empty, and otherwise the last
\* dot-separated segment of the id.
C17_AttributesOrNullNameNonEmpty ==
    Found =>
        LET e == FirstCarrier(call.args.es, call.args.dataItemId)
        IN /\ call.result.timestamp = e.timestamp
           /\ call.result.sequence = e.sequence
           /\ call.result.name = IF e.name \notin {Null, Str(<<>>)} THEN e.name
                                 ELSE Str(SegmentAfterLastDot(call.args.dataItemId))

\* an element without timestamp and sequence and with an empty name attribute
C17_Witness ==
    /\ Found
    /\ LET e == FirstCarrier(call.args.es, call.args.dataItemId)
       IN e.timestamp = Null /\ e.sequence = Null /\ e.name = Str(<<>>)
    /\ call.result.timestamp = Null /\ call.result.sequence = Null
    /\ call.result.name = Str(<<"Y">>)

\* C18: when several elements carry the queried id the first in document order
\* wins: value is its trimmed text content, and timestamp, sequence and name
\* come from its opening tag, never from a later element.
C18_FirstMatchWins ==
    (Returned("findDataItemInXml")
        /\ Cardinality(Carriers(call.args.es, call.args.dataItemId)) >= 2) =>
        LET e == FirstCarrier(call.args.es, call.args.dataItemId)
        IN /\ call.result.found
           /\ call.result.value = Str(e.trimmed)
           /\ call.result.timestamp = e.timestamp
           /\ call.result.sequence = e.sequence
           /\ call.result.name = IF e.name \notin {Null, Str(<<>>)} THEN e.name
                                 ELSE Str(SegmentAfterLastDot(call.args.dataItemId))

\* two elements with the id that differ in every field, the first one answered
C18_Witness ==
    /\ Returned("findDataItemInXml")
    /\ Len(call.args.es) = 2
    /\ Carriers(call.args.es, call.args.dataItemId) = {1, 2}
    /\ call.args.es[1].trimmed # call.args.es[2].trimmed
    /\ call.args.es[1].timestamp # call.args.es[2].timestamp
    /\ call.args.es[1].sequence # call.args.es[2].sequence
    /\ call.args.es[2].name \notin {Null, Str(<<>>), call.args.es[1].name}
    /\ call.result.value = Str(call.args.es[1].trimmed)
    /\ call.result.timestamp = call.args.es[1].timestamp
    /\ call.result.name # call.args.es[2].name

\* the entity of an XML special character; any other atom stands for itself
Entity(c) ==
    IF c = "&" THEN <<"&", "amp", ";">>
    ELSE IF c = "<" THEN <<"&", "lt", ";">>
    ELSE IF c = ">" THEN <<"&", "gt", ";">>
    ELSE IF c = "\"" THEN <<"&", "quot", ";">>
    ELSE IF c = "'" THEN <<"&", "apos", ";">>
    ELSE <<c>>

\* every atom of s replaced by its entity, once
RECURSIVE EscapedOnce(_)
EscapedOnce(s) == IF s = <<>> THEN <<>> ELSE Entity(Head(s)) \o EscapedOnce(Tail(s))

\* the number of places where needle occurs in s
Occurrences(s, needle) ==
    Cardinality({i \in 0..(Len(s) - Len(needle)) : SubSeq(s, i + 1, i + Len(needle)) = needle})

\* C19: escapeXml(s) has no raw <, >, " or ', every & of it starts one of the
\* five entities, and each entity stands for exactly one input character (no
\* double escaping); the write body, which escapes the id and the stringified
\* value, has exactly one DataItem element and one Value element.
C19_EscapedOnceEach ==
    /\ Returned("escapeXml") =>
          /\ \A i \in 1..Len(call.result) :
                /\ call.result[i] \notin {"<", ">", "\"", "'"}
                /\ call.result[i] = "&" =>
                      /\ i + 2 <= Len(call.result)
                      /\ call.result[i + 1] \in {"amp", "lt", "gt", "quot", "apos"}
                      /\ call.result[i + 2] = ";"
          /\ call.result = EscapedOnce(call.args.str)
    /\ Returned("body") =>
          /\ Occurrences(call.result, <<"<", "DataItem">>) = 1
          /\ Occurrences(call.result, <<"<", "/", "DataItem", ">">>) = 1
          /\ Occurrences(call.result, <<"<", "Value", ">">>) = 1
          /\ Occurrences(call.result, <<"<", "/", "Value", ">">>) = 1
          /\ Occurrences(call.result, <<"\"">>) = 2

\* the text &lt; followed by <, escaped to &amp;lt; and &lt;
C19_Witness ==
    /\ Returned("escapeXml")
    /\ call.args.str = <<"&", "lt", "<">>
    /\ call.result = <<"&", "amp", ";", "lt", "&", "lt", ";">>

\* C20: a write answered with a 2xx status and a non-empty body carries the
\* parsed JSON value as response when the body is valid JSON and the raw body
\* text otherwise; with an empty body response is not set.
C20_ResponseField ==
    [][\A m \in Msgs, r \in Reqs, res \in PostResponses :
          (/\ PostEnd(m, r, res.statusCode, res.data)
           /\ 200 <= res.statusCode /\ res.statusCode <= 299) =>
             IF res.data = <<>>
             THEN LastSent(m).response = Undef
             ELSE IF res.data = <<"{", "\"", "ok", "\"", ":", "true", "}">>
             THEN LastSent(m).response = [t |-> "object", s |-> <<"ok", ":", "true">>]
             ELSE LastSent(m).response = Str(res.data)]_vars

\* one write answered with the JSON body, one with a body that is not JSON
C20_Witness ==
    \E m1, m2 \in Msgs :
        /\ IsWrite(m1) /\ Len(out[m1].sent) = 1 /\ out[m1].sent[1].success
        /\ out[m1].sent[1].response.t = "object"
        /\ IsWrite(m2) /\ Len(out[m2].sent) = 1 /\ out[m2].sent[1].success
        /\ out[m2].sent[1].response = Str(<<"ok">>)

\* C21: no inbound message makes a pipeline raise an uncaught fault: every
\* message that was handled and did not start a request was reported on the
\* error channel and acknowledged, and no input handler threw.
C21_FaultsHandled ==
    \A m \in Msgs :
        msgs[m].st # "new" =>
            /\ msgs[m].st # "threw"
            /\ msgs[m].st # "active" => (out[m].errors # <<>> /\ out[m].dones >= 1)

\* C22: every inbound message that started its pipeline is eventually
\* acknowledged with done, even when the broker never responds (in runs that
\* stay within the bound on requests).
C22_EventuallyDone ==
    \A m \in Msgs : (msgs[m].st = "active") ~> (out[m].dones >= 1 \/ ~CanIssue)

\* C23: a fetch response with a status outside 200..299 is never turned into a
\* success: the message sent for it carries no extracted value, and a failure
\* is reported.
C23_Non2xxNeverSuccess ==
    [][\A m \in Msgs, r \in Reqs, res \in FetchResponses :
          (/\ FetchEnd(m, r, res.statusCode, res.data)
           /\ ~(200 <= res.statusCode /\ res.statusCode <= 299)) =>
             /\ Len(out'[m].sent) > Len(out[m].sent) => LastSent(m).payload = Null
             /\ \/ Len(out'[m].errors) > Len(out[m].errors)
                \/ /\ Len(out'[m].sent) > Len(out[m].sent)
                   /\ IsFailurePayload(LastSent(m))]_vars

\* the hostname a raw host of the model names: a and https://a/ name a
HostnameOf(raw) ==
    IF raw \in {<<"a">>, <<"h", "t", "t", "p", "s", ":", "/", "/", "a", "/">>}
    THEN <<"a">>
    ELSE raw

\* the scheme a raw host of the model asks for
SchemeOf(raw) ==
    IF raw = <<"h", "t", "t", "p", "s", ":", "/", "/", "a", "/">>
    THEN <<"h", "t", "t", "p", "s", ":">>
    ELSE <<"h", "t", "t", "p", ":">>

\* C24: the cache key is the normalized hostname and the port only: a read
\* message whose raw host differs from an earlier one's in scheme prefix or
\* trailing slashes only, with the same port, finds the earlier one's entry,
\* issues no probe and fetches with that verdict (and its own scheme); an entry
\* is read and written for messages of its own hostname and port only.
C24_KeyIsHostnameAndPort ==
    [][/\ \A m \in Msgs, msg \in ReadMsgs :
             (ReadInput(m, msg) /\ msgs'[m].st = "active") =>
                LET raw == IF msg.host # Undef THEN msg.host.s ELSE readNode.host.s
                    port == IF msg.port # Undef THEN msg.port.s ELSE readNode.port.s
                    key == HostnameOf(raw) \o <<":">> \o port
                    origin == SchemeOf(raw) \o <<"/", "/">> \o HostnameOf(raw) \o <<":">> \o port
                IN /\ msgs'[m].cacheKey = key
                   /\ brokerTypeCache' = brokerTypeCache
                   /\ Len(reqs'[m]) = 1
                   /\ IF key \in DOMAIN brokerTypeCache
                      THEN /\ reqs'[m][1].type = "fetch"
                           /\ StartsWith(reqs'[m][1].url, origin \o <<"/">>)
                           /\ IF brokerTypeCache[key].isSolutionEngine
                              THEN IsSolutionEngineUrl(msgs'[m], reqs'[m][1].url)
                              ELSE IsGenericUrl(msgs'[m], reqs'[m][1].url)
                      ELSE reqs'[m][1].type = "probe"
       /\ \A k \in DOMAIN brokerTypeCache' :
             (k \notin DOMAIN brokerTypeCache \/ brokerTypeCache'[k] # brokerTypeCache[k]) =>
                \E m \in Msgs :
                    /\ IsRead(m) /\ msgs[m].cacheKey = k
                    /\ out'[m].writes = out[m].writes + 1
                    /\ \A n \in Msgs \ {m} : out'[n] = out[n] /\ reqs'[n] = reqs[n]]_vars

\* two messages in flight for the same hostname and different ports, or for
\* the same port and different hostnames
C24_OtherKeys ==
    \E m1, m2 \in Msgs :
        /\ IsRead(m1) /\ IsRead(m2)
        /\ msgs[m1].cacheKey # msgs[m2].cacheKey
        /\ \/ msgs[m1].hostname = msgs[m2].hostname
           \/ msgs[m1].port = msgs[m2].port
        /\ msgs[m1].cacheKey \in DOMAIN brokerTypeCache
        /\ ~msgs[m2].hit /\ OfType(m2, "probe") # {}

\* a message for a over http cached the Solution Engine verdict; a later one for
\* https://a/ reused it without a probe, over https
C24_Witness ==
    \E m1, m2 \in Msgs :
        /\ IsRead(m1) /\ IsRead(m2)
        /\ msgs[m1].protocol = <<"h", "t", "t", "p", ":">> /\ ~msgs[m1].hit
        /\ msgs[m2].protocol = <<"h", "t", "t", "p", "s", ":">> /\ msgs[m2].hit
        /\ msgs[m1].cacheKey = msgs[m2].cacheKey
        /\ brokerTypeCache[msgs[m2].cacheKey].isSolutionEngine
        /\ Len(reqs[m2]) = 1 /\ reqs[m2][1].type = "fetch"
        /\ IsSolutionEngineUrl(msgs[m2], reqs[m2][1].url)
        /\ StartsWith(reqs[m2][1].url, <<"h", "t", "t", "p", "s", ":", "/", "/", "a", ":">>)

====
